---- MODULE Spec2Model ----
(***************************************************************************)
(* Specialization graph of librustc/traits/specialize/                     *)
(* specialization_graph.rs: the forest (Graph.parent, Graph.children),     *)
(* Children::insert_blindly / remove_existing / insert / iter / filtered,  *)
(* Graph::insert and Graph::record_impl_from_cstore.                       *)
(*                                                                         *)
(* The type-level queries of TyCtxt (impl_trait_ref, simplify_type,        *)
(* overlapping_impls, impls_are_allowed_to_overlap, specializes) are not    *)
(* part of this file; their answers are carried by the record tcx, which   *)
(* every operator receives exactly as the Rust code receives `tcx`.  The   *)
(* answers about an impl become fixed when the impl is handed to           *)
(* Graph::insert, and never change afterwards.                             *)
(*                                                                         *)
(* Option<X> is modelled as a sequence of length at most one.              *)
(***************************************************************************)
EXTENDS Naturals, Sequences, FiniteSets, TLC

VARIABLES
    parent,     \* Graph.parent   : DefId -> DefId (partial map)
    children,   \* Graph.children : DefId -> Children (partial map)
    tcx,        \* answers of the type-level queries, fixed once given
    declared,   \* number of impls handed to the Graph so far
    call,       \* observation of the last call on the Graph
    cstore,     \* the impls recorded by record_impl_from_cstore
    aborted,    \* bug! has ended the process
    mirror      \* a second Graph, handed the same impls in another order

vars == <<parent, children, tcx, declared, call, cstore, aborted, mirror>>

----------------------------------------------------------------------------
(* Universe *)

Impls == {"I1", "I2", "I3"}

\* Graph::insert is called once per impl, in declaration order.
DeclOrder == <<"I1", "I2", "I3">>

\* trait_ref.def_id of every impl of the trait whose graph this is
trait_def_id == "T"

\* number of distinct SimplifiedType values
NumShapes == 2

Shapes == 1..NumShapes

None == <<>>

Some(x) == <<x>>

OptShapes == {None} \cup {Some(s) : s \in Shapes}

\* the three (IntercrateMode, SkipLeakCheck) combinations used by Children::insert
ModeIssue43355 == <<"Issue43355", "No">>

ModeFixed == <<"Fixed", "No">>

ModeFixedSkipLeak == <<"Fixed", "Yes">>

Pairs == {{a, b} : a, b \in Impls} \ {{a} : a \in Impls}

----------------------------------------------------------------------------
(* Partial maps (FxHashMap) *)

\* F applied to the value of x, which is computed once
Bind(x, F(_)) == CHOOSE v \in {F(c) : c \in {x}} : TRUE

Put(f, k, v) == [x \in (DOMAIN f) \cup {k} |-> IF x = k THEN v ELSE f[x]]

EmptyMap == [x \in {} |-> {}]

\* Children::default()
DefaultChildren == [blanket_impls |-> <<>>, nonblanket_impls |-> EmptyMap]

\* map.entry(k).or_default() : the map after the call
EntryOrDefault(f, k, d) == IF k \in DOMAIN f THEN f ELSE Put(f, k, d)

----------------------------------------------------------------------------
(* Type-level queries, answered from tcx *)

\* fast_reject::simplify_type(tcx, tcx.impl_trait_ref(id).self_ty(), false)
simplify_type(t, id) == t.simplified[id]

\* tcx.impl_trait_ref(id).references_error()
references_error(t, id) == t.has_error[id]

\* traits::overlapping_impls(tcx, a, b, mode, skip_leak_check): is the
\* on_overlap closure the one that runs?
overlapping_impls(t, a, b, mode) == mode \in t.overlap[{a, b}]

\* tcx.impls_are_allowed_to_overlap(a, b) : Option<ImplOverlapKind>
impls_are_allowed_to_overlap(t, a, b) == t.allowed[{a, b}]

\* tcx.specializes((a, b))
specializes(t, a, b) == t.specializes[<<a, b>>]

----------------------------------------------------------------------------
(* Children *)

\* Children::insert_blindly: push at the end of the impl's shape bucket
\* (created when absent) or of blanket_impls.
insert_blindly(t, ch, impl_def_id) ==
    IF simplify_type(t, impl_def_id) # None
    THEN LET st == simplify_type(t, impl_def_id)[1]
             nb == EntryOrDefault(ch.nonblanket_impls, st, <<>>)
         IN  [ch EXCEPT !.nonblanket_impls = Put(nb, st, Append(nb[st], impl_def_id))]
    ELSE [ch EXCEPT !.blanket_impls = Append(@, impl_def_id)]

\* vec.iter().position(|d| *d == x) : index of the first occurrence (0: none)
Position(vec, x) ==
    IF \E i \in 1..Len(vec) : vec[i] = x
    THEN CHOOSE i \in 1..Len(vec) : vec[i] = x /\ \A j \in 1..(i - 1) : vec[j] # x
    ELSE 0

\* vec.swap_remove(index): the last element takes the place of the removed one
RemoveAt_swap(vec, index) ==
    [i \in 1..(Len(vec) - 1) |-> IF i = index THEN vec[Len(vec)] ELSE vec[i]]

\* vec.remove(index)
RemoveAt(vec, index) ==
    [i \in 1..(Len(vec) - 1) |-> IF i < index THEN vec[i] ELSE vec[i + 1]]

\* remove_existing that searches blanket_impls only, whatever the shape
remove_existing_blanket_only(t, ch, impl_def_id) ==
    IF Position(ch.blanket_impls, impl_def_id) # 0
    THEN [ch EXCEPT !.blanket_impls = RemoveAt(@, Position(@, impl_def_id))]
    ELSE ch

\* Children::remove_existing.  The two unwrap()s need the bucket and the
\* impl to be present; Graph::insert only passes impls it has just
\* enumerated from this very Children.
remove_existing(t, ch, impl_def_id) ==
    IF simplify_type(t, impl_def_id) # None
    THEN LET st  == simplify_type(t, impl_def_id)[1]
             vec == ch.nonblanket_impls[st]
         IN  [ch EXCEPT !.nonblanket_impls[st] = RemoveAt(vec, Position(vec, impl_def_id))]
    ELSE [ch EXCEPT !.blanket_impls = RemoveAt(@, Position(@, impl_def_id))]

\* flat_map over the buckets, in the iteration order `ord` of the hash map
RECURSIVE FlatBuckets(_, _, _)
FlatBuckets(nb, ord, k) ==
    IF k > Len(ord) THEN <<>>
    ELSE (IF ord[k] \in DOMAIN nb THEN nb[ord[k]] ELSE <<>>) \o FlatBuckets(nb, ord, k + 1)

\* Children::iter: blanket impls, then every bucket
iter(ch, ord) == ch.blanket_impls \o FlatBuckets(ch.nonblanket_impls, ord, 1)

\* Children::filtered: the Children after entry(st).or_default() ...
filtered_entry(ch, st) ==
    [ch EXCEPT !.nonblanket_impls = EntryOrDefault(@, st, <<>>)]

\* filtered that enumerates the bucket of st only
filtered_bucket_only(ch, st) == filtered_entry(ch, st).nonblanket_impls[st]

\* ... and the enumeration: blanket impls, then the bucket of st
filtered(ch, st) == ch.blanket_impls \o filtered_entry(ch, st).nonblanket_impls[st]

\* possible_siblings that takes Children::iter whatever the shape
possible_siblings_unfiltered(ch, simplified_self, ord) == iter(ch, ord)

\* lines 79-82: possible_siblings
possible_siblings(ch, simplified_self, ord) ==
    IF simplified_self # None THEN filtered(ch, simplified_self[1]) ELSE iter(ch, ord)

\* lines 79-82: what building possible_siblings does to the Children
after_enumeration(ch, simplified_self) ==
    IF simplified_self # None THEN filtered_entry(ch, simplified_self[1]) ELSE ch

----------------------------------------------------------------------------
(* Children::insert *)

\* the overlap_error closure (lines 90-108): the part the graph decides
overlap_error(possible_sibling) == [with_impl |-> possible_sibling]

\* FutureCompatOverlapError
FutureCompatOverlapError(possible_sibling, kind) ==
    [with_impl |-> possible_sibling, kind |-> kind]

\* one entry of the log of type-level queries made during a call
Query(op, a, b, mode) == [op |-> op, a |-> a, b |-> b, mode |-> mode]

\* the locals of Children::insert (lines 74-75) plus the query log and the
\* log of the values assigned to last_lint
InitialScan(queries) ==
    [last_lint |-> None, replace_children |-> <<>>, queries |-> queries, recorded |-> FALSE,
     lints |-> <<>>]

\* on_overlap that reports a conflict only when neither impl specializes
\* the other (!le && !ge instead of le == ge)
on_overlap_both_false(t, impl_def_id, possible_sibling, acc) ==
    LET overlap_kind == impls_are_allowed_to_overlap(t, impl_def_id, possible_sibling)
        q1 == Append(acc.queries, Query("impls_are_allowed_to_overlap", impl_def_id, possible_sibling, None))
    IN  IF overlap_kind # None
        THEN [err |-> None, le |-> FALSE, ge |-> FALSE,
              acc |-> IF overlap_kind = Some("Issue33140")
                      THEN [acc EXCEPT !.queries = q1, !.recorded = TRUE,
                                       !.last_lint = Some(FutureCompatOverlapError(possible_sibling, "Issue33140")),
                                       !.lints = Append(@, FutureCompatOverlapError(possible_sibling, "Issue33140"))]
                      ELSE [acc EXCEPT !.queries = q1]]
        ELSE LET le == specializes(t, impl_def_id, possible_sibling)
                 ge == specializes(t, possible_sibling, impl_def_id)
                 q2 == q1 \o << Query("specializes", impl_def_id, possible_sibling, None),
                                Query("specializes", possible_sibling, impl_def_id, None) >>
             IN  [err |-> IF ~le /\ ~ge THEN Some(overlap_error(possible_sibling)) ELSE None,
                  le |-> le, ge |-> ge, acc |-> [acc EXCEPT !.queries = q2]]

\* on_overlap that judges every overlap by specializes, permitted or not
on_overlap_ignores_policy(t, impl_def_id, possible_sibling, acc) ==
    LET le == specializes(t, impl_def_id, possible_sibling)
        ge == specializes(t, possible_sibling, impl_def_id)
        q2 == acc.queries \o << Query("specializes", impl_def_id, possible_sibling, None),
                                Query("specializes", possible_sibling, impl_def_id, None) >>
    IN  [err |-> IF le = ge THEN Some(overlap_error(possible_sibling)) ELSE None,
         le |-> le, ge |-> ge, acc |-> [acc EXCEPT !.queries = q2]]

\* lines 116-137: the on_overlap closure of the first overlapping_impls call
on_overlap(t, impl_def_id, possible_sibling, acc) ==
    LET overlap_kind == impls_are_allowed_to_overlap(t, impl_def_id, possible_sibling)
        q1 == Append(acc.queries, Query("impls_are_allowed_to_overlap", impl_def_id, possible_sibling, None))
    IN  IF overlap_kind # None
        THEN [err |-> None, le |-> FALSE, ge |-> FALSE,
              acc |-> IF overlap_kind = Some("Issue33140")
                      THEN [acc EXCEPT !.queries = q1, !.recorded = TRUE,
                                       !.last_lint = Some(FutureCompatOverlapError(possible_sibling, "Issue33140")),
                                       !.lints = Append(@, FutureCompatOverlapError(possible_sibling, "Issue33140"))]
                      ELSE [acc EXCEPT !.queries = q1]]
        ELSE LET le == specializes(t, impl_def_id, possible_sibling)
                 ge == specializes(t, possible_sibling, impl_def_id)
                 q2 == q1 \o << Query("specializes", impl_def_id, possible_sibling, None),
                                Query("specializes", possible_sibling, impl_def_id, None) >>
             IN  [err |-> IF le = ge THEN Some(overlap_error(possible_sibling)) ELSE None,
                  le |-> le, ge |-> ge, acc |-> [acc EXCEPT !.queries = q2]]

\* lines 110-139: the first overlapping_impls call (mode Issue43355)
first_check(t, impl_def_id, possible_sibling, acc) ==
    LET acc1 == [acc EXCEPT !.queries =
                    Append(@, Query("overlapping_impls", possible_sibling, impl_def_id, Some(ModeIssue43355)))]
    IN  IF overlapping_impls(t, possible_sibling, impl_def_id, ModeIssue43355)
        THEN on_overlap(t, impl_def_id, possible_sibling, acc1)
        ELSE [err |-> None, le |-> FALSE, ge |-> FALSE, acc |-> acc1]

\* leak_check without the test of line 176
leak_check_unguarded(t, impl_def_id, possible_sibling, acc) ==
    LET acc1 == [acc EXCEPT !.queries =
                    Append(@, Query("overlapping_impls", possible_sibling, impl_def_id, Some(ModeFixedSkipLeak)))]
    IN  IF overlapping_impls(t, possible_sibling, impl_def_id, ModeFixedSkipLeak)
        THEN [acc1 EXCEPT !.recorded = TRUE,
                          !.last_lint = Some(FutureCompatOverlapError(possible_sibling, "LeakCheck")),
                          !.lints = Append(@, FutureCompatOverlapError(possible_sibling, "LeakCheck"))]
        ELSE acc1

\* lines 176-191: the leak-check-skipping overlap check
leak_check(t, impl_def_id, possible_sibling, acc) ==
    IF acc.last_lint = None
    THEN LET acc1 == [acc EXCEPT !.queries =
                         Append(@, Query("overlapping_impls", possible_sibling, impl_def_id, Some(ModeFixedSkipLeak)))]
         IN  IF overlapping_impls(t, possible_sibling, impl_def_id, ModeFixedSkipLeak)
             THEN [acc1 EXCEPT !.recorded = TRUE,
                               !.last_lint = Some(FutureCompatOverlapError(possible_sibling, "LeakCheck")),
                               !.lints = Append(@, FutureCompatOverlapError(possible_sibling, "LeakCheck"))]
             ELSE acc1
    ELSE acc

\* lines 157-192: the future-compatibility checks of the last else branch
future_compat(t, impl_def_id, possible_sibling, acc) ==
    LET acc1 == [acc EXCEPT !.queries =
                    Append(@, Query("impls_are_allowed_to_overlap", impl_def_id, possible_sibling, None))]
    IN  IF impls_are_allowed_to_overlap(t, impl_def_id, possible_sibling) = None
        THEN LET acc2 == [acc1 EXCEPT !.queries =
                             Append(@, Query("overlapping_impls", possible_sibling, impl_def_id, Some(ModeFixed)))]
                 acc3 == IF overlapping_impls(t, possible_sibling, impl_def_id, ModeFixed)
                         THEN [acc2 EXCEPT !.recorded = TRUE,
                                           !.last_lint = Some(FutureCompatOverlapError(possible_sibling, "Issue43355")),
                                           !.lints = Append(@, FutureCompatOverlapError(possible_sibling, "Issue43355"))]
                         ELSE acc2
             IN  leak_check(t, impl_def_id, possible_sibling, acc3)
        ELSE acc1

\* sibling_step with the tests of lines 141 and 149 exchanged
sibling_step_swapped(t, impl_def_id, possible_sibling, acc) ==
    LET classify(c) ==
            IF c.err # None
            THEN [stop |-> "Err", acc |-> c.acc]
            ELSE IF c.ge /\ ~c.le
            THEN [stop |-> "ShouldRecurseOn", acc |-> c.acc]
            ELSE IF c.le /\ ~c.ge
            THEN [stop |-> "No",
                  acc |-> [c.acc EXCEPT !.replace_children = Append(@, possible_sibling)]]
            ELSE [stop |-> "No",
                  acc |-> future_compat(t, impl_def_id, possible_sibling, c.acc)]
    IN  Bind(first_check(t, impl_def_id, possible_sibling, acc), classify)

\* lines 84-196: the body of the for loop for one possible_sibling.
\* stop is "Err" (the ? of line 139), "ShouldRecurseOn" (line 148) or "No".
sibling_step(t, impl_def_id, possible_sibling, acc) ==
    LET classify(c) ==
            IF c.err # None
            THEN [stop |-> "Err", acc |-> c.acc]
            ELSE IF c.le /\ ~c.ge
            THEN [stop |-> "ShouldRecurseOn", acc |-> c.acc]
            ELSE IF c.ge /\ ~c.le
            THEN [stop |-> "No",
                  acc |-> [c.acc EXCEPT !.replace_children = Append(@, possible_sibling)]]
            ELSE [stop |-> "No",
                  acc |-> future_compat(t, impl_def_id, possible_sibling, c.acc)]
    IN  Bind(first_check(t, impl_def_id, possible_sibling, acc), classify)

RECURSIVE scan(_, _, _, _, _)

\* scan that goes through the remaining siblings before it returns
\* ShouldRecurseOn
RECURSIVE scan_runs_on(_, _, _, _, _)
scan_runs_on(t, impl_def_id, cands, k, acc) ==
    IF k > Len(cands)
    THEN [stop |-> "No", at |-> k - 1, acc |-> acc]
    ELSE LET continue(r) ==
                 IF r.stop = "Err"
                 THEN [stop |-> r.stop, at |-> k, acc |-> r.acc]
                 ELSE IF r.stop = "ShouldRecurseOn"
                 THEN [stop |-> r.stop, at |-> k,
                       acc |-> scan_runs_on(t, impl_def_id, cands, k + 1, r.acc).acc]
                 ELSE scan_runs_on(t, impl_def_id, cands, k + 1, r.acc)
         IN  Bind(sibling_step(t, impl_def_id, cands[k], acc), continue)

\* lines 84-196: the for loop, from the k-th possible sibling on
scan(t, impl_def_id, cands, k, acc) ==
    IF k > Len(cands)
    THEN [stop |-> "No", at |-> k - 1, acc |-> acc]
    ELSE LET continue(r) ==
                 IF r.stop # "No"
                 THEN [stop |-> r.stop, at |-> k, acc |-> r.acc]
                 ELSE scan(t, impl_def_id, cands, k + 1, r.acc)
         IN  Bind(sibling_step(t, impl_def_id, cands[k], acc), continue)

\* Children::insert.  tag is "Err" or the variant of Inserted; children is
\* the Children after the call, whatever the result.
Children_insert(t, ch, impl_def_id, simplified_self, ord, queries) ==
    LET finish(cands, ch1, r, base) ==
            IF r.stop = "Err"
            THEN [base EXCEPT !.error = Some(overlap_error(cands[r.at]))]
            ELSE IF r.stop = "ShouldRecurseOn"
            THEN [base EXCEPT !.target = Some(cands[r.at])]
            ELSE IF r.acc.replace_children # <<>>
            THEN [base EXCEPT !.tag = "ReplaceChildren", !.list = r.acc.replace_children]
            ELSE [base EXCEPT !.tag = "BecameNewSibling", !.lint = r.acc.last_lint,
                              !.children = insert_blindly(t, ch1, impl_def_id)]
        result(cands, ch1) ==
            LET fin(r) == finish(cands, ch1, r,
                   [children |-> ch1, tag |-> r.stop, lint |-> None, list |-> <<>>,
                    target |-> None, error |-> None, queries |-> r.acc.queries,
                    recorded |-> r.acc.recorded, lints |-> r.acc.lints,
                    candidates |-> cands, visited |-> r.at])
            IN  Bind(scan(t, impl_def_id, cands, 1, InitialScan(queries)), fin)
        run(cands) ==
            LET with(ch1) == result(cands, ch1)
            IN  Bind(after_enumeration(ch, simplified_self), with)
    IN  Bind(possible_siblings(ch, simplified_self, ord), run)

----------------------------------------------------------------------------
(* Graph::insert *)

Ok(opt_lint) == [ok |-> TRUE, lint |-> opt_lint, error |-> None]

Err(error) == [ok |-> FALSE, lint |-> None, error |-> Some(error)]

RECURSIVE remove_all(_, _, _, _)

\* remove_all that removes nothing
remove_all_nothing(t, siblings, list, k) == siblings

\* lines 313-315: remove every grand child to be from the siblings
remove_all(t, siblings, list, k) ==
    IF k > Len(list) THEN siblings
    ELSE remove_all(t, remove_existing(t, siblings, list[k]), list, k + 1)

\* lines 311-317: adjust P's list of children, remove G and then add N
adjust_siblings(t, siblings, impl_def_id, list) ==
    insert_blindly(t, remove_all(t, siblings, list, 1), impl_def_id)

\* set_parents without the loop of lines 320-322
set_parents_forgets(par, cursor, impl_def_id, list) ==
    Put(par, impl_def_id, cursor)

\* set_parents with the arguments of line 323 exchanged
set_parents_swapped(par, cursor, impl_def_id, list) ==
    [x \in (DOMAIN par) \cup {list[k] : k \in 1..Len(list)} \cup {cursor} |->
        IF x = cursor THEN impl_def_id
        ELSE IF \E k \in 1..Len(list) : list[k] = x THEN impl_def_id
        ELSE par[x]]

\* lines 320-323: set G's parent to N and N's parent to P
set_parents(par, cursor, impl_def_id, list) ==
    [x \in (DOMAIN par) \cup {list[k] : k \in 1..Len(list)} \cup {impl_def_id} |->
        IF x = impl_def_id THEN cursor
        ELSE IF \E k \in 1..Len(list) : list[k] = x THEN impl_def_id
        ELSE par[x]]

\* lines 326-331: add G as N's child, one entry(N).or_default().insert_blindly
\* per grand child
RECURSIVE add_grand_children(_, _, _, _, _)
add_grand_children(t, chn, impl_def_id, list, k) ==
    IF k > Len(list) THEN chn
    ELSE LET chn1 == EntryOrDefault(chn, impl_def_id, DefaultChildren)
         IN  add_grand_children(t,
                 Put(chn1, impl_def_id, insert_blindly(t, chn1[impl_def_id], list[k])),
                 impl_def_id, list, k + 1)

\* the ReplaceChildren arm without lines 326-331
replace_children_arm_no_grand_children(t, par, chn, cursor, impl_def_id, list) ==
    [parent   |-> set_parents(par, cursor, impl_def_id, list),
     children |-> Put(chn, cursor, adjust_siblings(t, chn[cursor], impl_def_id, list))]

\* lines 295-333: the ReplaceChildren arm; chn already holds the Children of
\* the cursor as Children::insert left it
replace_children_arm(t, par, chn, cursor, impl_def_id, list) ==
    LET chn1 == Put(chn, cursor, adjust_siblings(t, chn[cursor], impl_def_id, list))
    IN  [parent   |-> set_parents(par, cursor, impl_def_id, list),
         children |-> add_grand_children(t, chn1, impl_def_id, list, 1)]

\* what one turn of the loop of lines 284-338 observed
Level(cursor, r) ==
    [node |-> cursor, candidates |-> r.candidates, visited |-> r.visited, tag |-> r.tag,
     list |-> r.list, target |-> r.target, lint |-> r.lint, recorded |-> r.recorded,
     lints |-> r.lints]

\* line 340 with the trait root in the place of the cursor
final_parent_at_root(par, impl_def_id, cursor) == Put(par, impl_def_id, trait_def_id)

\* line 340: self.parent.insert(impl_def_id, parent)
final_parent(par, impl_def_id, cursor) == Put(par, impl_def_id, cursor)

\* propagate_error when the impl was pushed before the scan
propagate_error_pushed(t, par, chn, impl_def_id, cursor, r, tr) ==
    [parent |-> par, children |-> Put(chn, cursor, insert_blindly(t, chn[cursor], impl_def_id)),
     result |-> Err(r.error[1]), queries |-> r.queries, trace |-> tr]

\* propagate_error when line 340 ran before the error was returned
propagate_error_parented(t, par, chn, impl_def_id, cursor, r, tr) ==
    [parent |-> Put(par, impl_def_id, cursor), children |-> chn,
     result |-> Err(r.error[1]), queries |-> r.queries, trace |-> tr]

\* lines 287-288: the ? operator returns the error of Children::insert at
\* once; chn holds the Children of the cursor as Children::insert left it
propagate_error(t, par, chn, impl_def_id, cursor, r, tr) ==
    [parent |-> par, children |-> chn, result |-> Err(r.error[1]),
     queries |-> r.queries, trace |-> tr]

\* lines 284-341: the loop, with `cursor` the local variable `parent`
RECURSIVE walk(_, _, _, _, _, _, _, _)
walk(t, par, chn, impl_def_id, cursor, ord, queries, trace) ==
    LET surgery(g, r, tr) ==
            [parent |-> final_parent(g.parent, impl_def_id, cursor), children |-> g.children,
             result |-> Ok(None), queries |-> r.queries, trace |-> tr]
        match(r, chn1, tr) ==
            IF r.tag = "Err"
            THEN propagate_error(t, par, chn1, impl_def_id, cursor, r, tr)
            ELSE IF r.tag = "BecameNewSibling"
            THEN [parent |-> final_parent(par, impl_def_id, cursor), children |-> chn1,
                  result |-> Ok(r.lint), queries |-> r.queries, trace |-> tr]
            ELSE IF r.tag = "ReplaceChildren"
            THEN surgery(replace_children_arm(t, par, chn1, cursor, impl_def_id, r.list), r, tr)
            ELSE walk(t, par, chn1, impl_def_id, r.target[1], ord, r.queries, tr)
        enter(chn0) ==
            LET turn(r) ==
                    match(r, Put(chn0, cursor, r.children), Append(trace, Level(cursor, r)))
            IN  Bind(Children_insert(t, chn0[cursor], impl_def_id,
                                     simplify_type(t, impl_def_id), ord, queries), turn)
    IN  Bind(EntryOrDefault(chn, cursor, DefaultChildren), enter)

\* loop_turn that stays at the cursor on ShouldRecurseOn
loop_turn_stays(t, par, chn, impl_def_id, cursor, ord, queries, trace) ==
    LET left(w) ==
            [parent |-> w.parent, children |-> w.children, result |-> w.result,
             queries |-> w.queries, trace |-> w.trace, next |-> None]
        arm(r) ==
            IF r.tag = "ShouldRecurseOn"
            THEN [parent |-> par,
                  children |-> Put(EntryOrDefault(chn, cursor, DefaultChildren), cursor,
                                   r.children),
                  result |-> Ok(None), queries |-> r.queries,
                  trace |-> Append(trace, Level(cursor, r)), next |-> Some(cursor)]
            ELSE Bind(walk(t, par, chn, impl_def_id, cursor, ord, queries, trace), left)
    IN  Bind(Children_insert(t, EntryOrDefault(chn, cursor, DefaultChildren)[cursor],
                             impl_def_id, simplify_type(t, impl_def_id), ord, queries), arm)

\* One turn of the loop of lines 284-338.  next is the cursor of the next
\* turn (line 336) or None when the loop is left (break or ?).
loop_turn(t, par, chn, impl_def_id, cursor, ord, queries, trace) ==
    LET left(w) ==
            [parent |-> w.parent, children |-> w.children, result |-> w.result,
             queries |-> w.queries, trace |-> w.trace, next |-> None]
        arm(r) ==
            IF r.tag = "ShouldRecurseOn"
            THEN [parent |-> par,
                  children |-> Put(EntryOrDefault(chn, cursor, DefaultChildren), cursor,
                                   r.children),
                  result |-> Ok(None), queries |-> r.queries,
                  trace |-> Append(trace, Level(cursor, r)), next |-> r.target]
            ELSE Bind(walk(t, par, chn, impl_def_id, cursor, ord, queries, trace), left)
    IN  Bind(Children_insert(t, EntryOrDefault(chn, cursor, DefaultChildren)[cursor],
                             impl_def_id, simplify_type(t, impl_def_id), ord, queries), arm)

\* lines 267-277: the impl of an erroneous trait reference goes to the top level
error_short_circuit(t, par, chn, impl_def_id) ==
    LET chn0 == EntryOrDefault(chn, trait_def_id, DefaultChildren)
    IN  [parent   |-> Put(par, impl_def_id, trait_def_id),
         children |-> Put(chn0, trait_def_id, insert_blindly(t, chn0[trait_def_id], impl_def_id)),
         result   |-> Ok(None), queries |-> <<>>, trace |-> <<>>]

\* Graph::insert without the test of line 267
Graph_insert_always_walks(t, par, chn, impl_def_id, ord) ==
    walk(t, par, chn, impl_def_id, trait_def_id, ord, <<>>, <<>>)

\* Graph::insert
Graph_insert(t, par, chn, impl_def_id, ord) ==
    IF references_error(t, impl_def_id)
    THEN error_short_circuit(t, par, chn, impl_def_id)
    ELSE walk(t, par, chn, impl_def_id, trait_def_id, ord, <<>>, <<>>)

----------------------------------------------------------------------------
(* Graph::record_impl_from_cstore *)

\* record_impl_from_cstore without the test of line 346
record_impl_from_cstore_unchecked(t, par, chn, parent_id, child) ==
    [parent   |-> Put(par, child, parent_id),
     children |-> Put(EntryOrDefault(chn, parent_id, DefaultChildren), parent_id,
                      insert_blindly(t, EntryOrDefault(chn, parent_id, DefaultChildren)[parent_id],
                                     child)),
     bug      |-> FALSE]

\* record_impl_from_cstore without line 353
record_impl_from_cstore_no_push(t, par, chn, parent_id, child) ==
    [parent |-> Put(par, child, parent_id), children |-> chn, bug |-> child \in DOMAIN par]

\* Graph::record_impl_from_cstore.  HashMap::insert has already replaced the
\* old parent entry when bug! ends the process; line 353 is then never run.
record_impl_from_cstore(t, par, chn, parent_id, child) ==
    IF child \in DOMAIN par
    THEN [parent |-> Put(par, child, parent_id), children |-> chn, bug |-> TRUE]
    ELSE [parent   |-> Put(par, child, parent_id),
          children |-> Put(EntryOrDefault(chn, parent_id, DefaultChildren), parent_id,
                           insert_blindly(t, EntryOrDefault(chn, parent_id, DefaultChildren)[parent_id],
                                          child)),
          bug      |-> FALSE]

----------------------------------------------------------------------------
(* The answers the type-level queries can give *)

\* The modes are ordered by strictness: an overlap found in mode Issue43355
\* is found in mode Fixed, and one found with the leak check is found
\* without it.
OverlapChain ==
    { {}, {ModeFixedSkipLeak}, {ModeFixed, ModeFixedSkipLeak},
      {ModeIssue43355, ModeFixed, ModeFixedSkipLeak} }

\* ty::ImplOverlapKind, as an Option
OverlapKinds == {None, Some("Permitted"), Some("Issue33140")}

\* The facts about the pair (new impl, earlier impl): le is
\* specializes(new, earlier), ge is specializes(earlier, new).  Answers that
\* no path of Children::insert reads are left at one value: specializes of a
\* pair that does not overlap in mode Issue43355 is FALSE, and a pair that
\* the policy lets overlap although it does not overlap in mode Issue43355
\* overlaps in mode Fixed.  A pair that the policy lets overlap may have
\* either impl specialize the other (marker traits under specialization);
\* both at once is the answer of an ill-formed oracle and is kept for the
\* pairs the policy does not permit only.
PairFacts ==
    { f \in [overlap : OverlapChain, allowed : OverlapKinds, le : BOOLEAN, ge : BOOLEAN] :
        /\ (ModeIssue43355 \notin f.overlap) =>
               /\ ~f.le /\ ~f.ge
               /\ f.allowed \in {None, Some("Permitted")}
               /\ f.allowed # None => f.overlap = {ModeFixed, ModeFixedSkipLeak}
        /\ (f.allowed # None) => ~(f.le /\ f.ge) }

\* The facts about a pair whose new impl has an erroneous trait reference:
\* Graph::insert asks nothing about it, so all that matters is whether the
\* two impls are in conflict.
ErrorFacts ==
    { f \in PairFacts :
        /\ f.allowed = None /\ ~f.le /\ ~f.ge
        /\ f.overlap \in { {}, {ModeIssue43355, ModeFixed, ModeFixedSkipLeak} } }

\* The facts of a pair when no lint is involved: the pair overlaps in every
\* mode or in none, and the policy permits nothing.
PlainFacts ==
    { f \in PairFacts :
        /\ f.allowed = None
        /\ f.overlap \in { {}, {ModeIssue43355, ModeFixed, ModeFixedSkipLeak} } }

\* fast_reject: impls whose self types simplify to different shapes overlap
\* in no mode
ShapeContract(t, st, facts) ==
    \A j \in DOMAIN facts :
        (st # None /\ t.simplified[j] # None /\ t.simplified[j] # st) => facts[j].overlap = {}

\* iteration orders of the nonblanket_impls hash map
Perms == { p \in [1..NumShapes -> Shapes] : \A i, j \in 1..NumShapes : p[i] = p[j] => i = j }

IdentityPerm == [i \in 1..NumShapes |-> i]

\* tcx once the facts about impl_def_id are known
Declare(t, impl_def_id, st, e, facts) ==
    [simplified  |-> [t.simplified EXCEPT ![impl_def_id] = st],
     has_error   |-> [t.has_error EXCEPT ![impl_def_id] = e],
     overlap     |-> [p \in DOMAIN t.overlap |->
                        IF \E j \in DOMAIN facts : p = {impl_def_id, j}
                        THEN facts[CHOOSE j \in DOMAIN facts : p = {impl_def_id, j}].overlap
                        ELSE t.overlap[p]],
     allowed     |-> [p \in DOMAIN t.allowed |->
                        IF \E j \in DOMAIN facts : p = {impl_def_id, j}
                        THEN facts[CHOOSE j \in DOMAIN facts : p = {impl_def_id, j}].allowed
                        ELSE t.allowed[p]],
     specializes |-> [x \in DOMAIN t.specializes |->
                        IF x[1] = impl_def_id /\ x[2] \in DOMAIN facts THEN facts[x[2]].le
                        ELSE IF x[2] = impl_def_id /\ x[1] \in DOMAIN facts THEN facts[x[1]].ge
                        ELSE t.specializes[x]]]

----------------------------------------------------------------------------
(* State machine *)

NoCall ==
    [op |-> "none", impl |-> None, into |-> None, result |-> Ok(None), queries |-> <<>>,
     trace |-> <<>>, ord |-> IdentityPerm]

\* tcx before any fact about an impl is known
Init_tcx ==
    [simplified  |-> [i \in Impls |-> None],
     has_error   |-> [i \in Impls |-> FALSE],
     overlap     |-> [p \in Pairs |-> {}],
     allowed     |-> [p \in Pairs |-> None],
     specializes |-> [x \in Impls \X Impls |-> FALSE]]

NoMirror == [parent |-> EmptyMap, children |-> EmptyMap, fed |-> 0]

Init ==
    /\ parent = EmptyMap
    /\ children = EmptyMap
    /\ tcx = Init_tcx
    /\ declared = 0
    /\ call = NoCall
    /\ cstore = {}
    /\ aborted = FALSE
    /\ mirror = NoMirror

\* One call of Graph::insert for the next impl of the sequence order, the
\* facts about it being drawn from Facts and whether its trait reference is
\* erroneous from Errs.
InsertNextOf(order, impl_def_id, Facts, Errs) ==
    /\ ~aborted
    /\ declared < Len(order)
    /\ impl_def_id = order[declared + 1]
    /\ UNCHANGED <<cstore, aborted, mirror>>
    /\ \E st \in OptShapes, e \in Errs, facts \in [DOMAIN parent -> Facts] :
         /\ ShapeContract(tcx, st, facts)
         /\ e => \A j \in DOMAIN facts : facts[j] \in ErrorFacts
         /\ \E ord \in (IF st = None /\ ~e THEN Perms ELSE {IdentityPerm}) :
              \E t \in {Declare(tcx, impl_def_id, st, e, facts)} :
              \E r \in {Graph_insert(t, parent, children, impl_def_id, ord)} :
                  /\ tcx' = t
                  /\ parent' = r.parent
                  /\ children' = r.children
                  /\ declared' = declared + 1
                  /\ call' = [op |-> "insert", impl |-> Some(impl_def_id), into |-> None,
                              result |-> r.result, queries |-> r.queries,
                              trace |-> r.trace, ord |-> ord]

\* One call of Graph::insert for the next impl in declaration order
InsertWith(impl_def_id, Facts) == InsertNextOf(DeclOrder, impl_def_id, Facts, BOOLEAN)

\* One call of Graph::insert
Insert(impl_def_id) == InsertWith(impl_def_id, PairFacts)

Next == \E impl_def_id \in Impls : Insert(impl_def_id)

Spec == Init /\ [][Next]_vars

----------------------------------------------------------------------------
(* State machine with the crate store *)

\* The facts drawn for a local impl when impls are also recorded from the
\* crate store: no overlap, a conflict, strict specialization either way, or
\* an overlap the policy permits.
CstoreFacts ==
    { f \in PairFacts :
        /\ f.overlap \in { {}, {ModeIssue43355, ModeFixed, ModeFixedSkipLeak} }
        /\ f.allowed \in {None, Some("Permitted")}
        /\ (f.allowed # None) => (ModeIssue43355 \in f.overlap /\ ~f.le /\ ~f.ge)
        /\ ~(f.le /\ f.ge) }

\* One call of Graph::insert between calls of record_impl_from_cstore
InsertLocal(impl_def_id) == InsertWith(impl_def_id, CstoreFacts)

\* One call of record_impl_from_cstore(parent_id, child).  The child is an
\* impl the Graph has seen, or the next one in declaration order, whose shape
\* then becomes known; record_impl_from_cstore asks nothing else about it.
RecordImplFromCstore(parent_id, child) ==
    /\ ~aborted
    /\ UNCHANGED mirror
    /\ \/ \E k \in 1..declared : child = DeclOrder[k]
       \/ declared < Len(DeclOrder) /\ child = DeclOrder[declared + 1]
    /\ \E st \in OptShapes :
         /\ (\E k \in 1..declared : child = DeclOrder[k]) => st = simplify_type(tcx, child)
         /\ \E t \in {[tcx EXCEPT !.simplified[child] = st]} :
            \E r \in {record_impl_from_cstore(t, parent, children, parent_id, child)} :
                /\ tcx' = t
                /\ parent' = r.parent
                /\ children' = r.children
                /\ aborted' = r.bug
                /\ cstore' = IF r.bug THEN cstore ELSE cstore \cup {child}
                /\ declared' = IF \E k \in 1..declared : child = DeclOrder[k]
                               THEN declared ELSE declared + 1
                /\ call' = [op |-> "record_impl_from_cstore", impl |-> Some(child),
                            into |-> Some(parent_id), result |-> Ok(None), queries |-> <<>>,
                            trace |-> <<>>, ord |-> IdentityPerm]

NextCstore ==
    \/ \E impl_def_id \in Impls : InsertLocal(impl_def_id)
    \/ \E parent_id \in Impls \cup {trait_def_id}, child \in Impls :
           RecordImplFromCstore(parent_id, child)

SpecCstore == Init /\ [][NextCstore]_vars

----------------------------------------------------------------------------
(* State machine of the loop of Graph::insert, one turn per step *)

\* Graph::insert is inside its loop
InLoop == call.op = "inserting"

\* Graph::insert is entered for the next impl in declaration order: an impl
\* of an erroneous trait reference is placed and the call returns (lines
\* 267-277), any other impl enters the loop at the trait root (line 279).
Enter(impl_def_id) ==
    /\ ~InLoop
    /\ declared < Len(DeclOrder)
    /\ impl_def_id = DeclOrder[declared + 1]
    /\ UNCHANGED <<cstore, aborted, mirror>>
    /\ \E st \in OptShapes, e \in BOOLEAN, facts \in [DOMAIN parent -> CstoreFacts] :
         /\ ShapeContract(tcx, st, facts)
         /\ e => \A j \in DOMAIN facts : facts[j] \in ErrorFacts
         /\ \E ord \in (IF st = None /\ ~e THEN Perms ELSE {IdentityPerm}) :
            \E t \in {Declare(tcx, impl_def_id, st, e, facts)} :
                /\ tcx' = t
                /\ declared' = declared + 1
                /\ IF references_error(t, impl_def_id)
                   THEN \E r \in {error_short_circuit(t, parent, children, impl_def_id)} :
                            /\ parent' = r.parent
                            /\ children' = r.children
                            /\ call' = [op |-> "insert", impl |-> Some(impl_def_id),
                                        into |-> None, result |-> r.result,
                                        queries |-> r.queries, trace |-> r.trace,
                                        ord |-> ord]
                   ELSE /\ UNCHANGED <<parent, children>>
                        /\ call' = [op |-> "inserting", impl |-> Some(impl_def_id),
                                    into |-> Some(trait_def_id), result |-> Ok(None),
                                    queries |-> <<>>, trace |-> <<>>, ord |-> ord]

\* One turn of the loop: Children::insert on the Children of the cursor and
\* the match on its result.
Turn ==
    /\ InLoop
    /\ UNCHANGED <<tcx, declared, cstore, aborted, mirror>>
    /\ \E r \in {loop_turn(tcx, parent, children, call.impl[1], call.into[1], call.ord,
                            call.queries, call.trace)} :
           /\ parent' = r.parent
           /\ children' = r.children
           /\ call' = [op |-> IF r.next = None THEN "insert" ELSE "inserting",
                       impl |-> call.impl, into |-> r.next, result |-> r.result,
                       queries |-> r.queries, trace |-> r.trace, ord |-> call.ord]

NextWalk ==
    \/ \E impl_def_id \in Impls : Enter(impl_def_id)
    \/ Turn

\* The loop does not wait for anything: a turn that can be taken is taken.
SpecWalk == Init /\ [][NextWalk]_vars /\ WF_vars(Turn)

----------------------------------------------------------------------------
(* State machine of four impls *)

\* the impls handed to Graph::insert, in this order: four, so that a list of
\* one Children can hold three impls when the fourth arrives
ChildOrder == <<"I1", "I2", "I3", "I4">>

ChildIds == {ChildOrder[k] : k \in 1..Len(ChildOrder)}

\* Graph::new, and tcx before any fact about the four impls is known
InitChildren ==
    /\ parent = EmptyMap
    /\ children = EmptyMap
    /\ declared = 0
    /\ call = NoCall
    /\ cstore = {}
    /\ aborted = FALSE
    /\ mirror = NoMirror
    /\ tcx = [simplified  |-> [i \in ChildIds |-> None],
              has_error   |-> [i \in ChildIds |-> FALSE],
              overlap     |-> [p \in {{a, b} : a, b \in ChildIds} \ {{a} : a \in ChildIds}
                                 |-> {}],
              allowed     |-> [p \in {{a, b} : a, b \in ChildIds} \ {{a} : a \in ChildIds}
                                 |-> None],
              specializes |-> [x \in ChildIds \X ChildIds |-> FALSE]]

\* The facts of a pair of the four impls: no overlap, a conflict, or strict
\* specialization either way.
ChildFacts == { f \in PlainFacts : ~(f.le /\ f.ge) }

\* One call of Graph::insert for the next of the four impls, none of which
\* has an erroneous trait reference
InsertChild(impl_def_id) == InsertNextOf(ChildOrder, impl_def_id, ChildFacts, {FALSE})

NextChildren == \E impl_def_id \in ChildIds : InsertChild(impl_def_id)

SpecChildren == InitChildren /\ [][NextChildren]_vars

----------------------------------------------------------------------------
(* State machine of two insertion orders *)

\* the order in which the second Graph is handed the impls
MirrorOrder == <<"I3", "I1", "I2">>

\* Every fact about the three impls is fixed before the first call.
InitOrders ==
    /\ parent = EmptyMap
    /\ children = EmptyMap
    /\ declared = 0
    /\ call = NoCall
    /\ cstore = {}
    /\ aborted = FALSE
    /\ mirror = NoMirror
    /\ \E s1, s2, s3 \in OptShapes, f12, f13, f23 \in PlainFacts :
         \E t1 \in {Declare(Init_tcx, "I1", s1, FALSE, EmptyMap)} :
         \E t2 \in {Declare(t1, "I2", s2, FALSE, [j \in {"I1"} |-> f12])} :
             /\ ShapeContract(t1, s2, [j \in {"I1"} |-> f12])
             /\ ShapeContract(t2, s3, [j \in {"I1", "I2"} |-> IF j = "I1" THEN f13 ELSE f23])
             /\ tcx = Declare(t2, "I3", s3, FALSE,
                              [j \in {"I1", "I2"} |-> IF j = "I1" THEN f13 ELSE f23])

\* One call of Graph::insert on the first Graph, in declaration order
Feed(impl_def_id) ==
    /\ declared < Len(DeclOrder)
    /\ impl_def_id = DeclOrder[declared + 1]
    /\ UNCHANGED <<tcx, cstore, aborted, mirror>>
    /\ \E ord \in (IF simplify_type(tcx, impl_def_id) = None THEN Perms ELSE {IdentityPerm}) :
       \E r \in {Graph_insert(tcx, parent, children, impl_def_id, ord)} :
           /\ parent' = r.parent
           /\ children' = r.children
           /\ declared' = declared + 1
           /\ call' = [op |-> "insert", impl |-> Some(impl_def_id), into |-> None,
                       result |-> r.result, queries |-> r.queries,
                       trace |-> r.trace, ord |-> ord]

\* One call of Graph::insert on the second Graph, in the order MirrorOrder
FeedMirror(impl_def_id) ==
    /\ mirror.fed < Len(MirrorOrder)
    /\ impl_def_id = MirrorOrder[mirror.fed + 1]
    /\ UNCHANGED <<parent, children, tcx, declared, call, cstore, aborted>>
    /\ \E ord \in (IF simplify_type(tcx, impl_def_id) = None THEN Perms ELSE {IdentityPerm}) :
       \E r \in {Graph_insert(tcx, mirror.parent, mirror.children, impl_def_id, ord)} :
           mirror' = [parent |-> r.parent, children |-> r.children, fed |-> mirror.fed + 1]

NextOrders ==
    \/ \E impl_def_id \in Impls : Feed(impl_def_id)
    \/ \E impl_def_id \in Impls : FeedMirror(impl_def_id)

SpecOrders == InitOrders /\ [][NextOrders]_vars

----------------------------------------------------------------------------
(* Vocabulary of the properties *)

Range(seq) == {seq[k] : k \in 1..Len(seq)}

\* the places of a Children where id is stored: <<shape (0: blanket), index>>
SlotsIn(ch, id) ==
    {<<0, k>> : k \in {k \in 1..Len(ch.blanket_impls) : ch.blanket_impls[k] = id}}
    \cup UNION { {<<st, k>> : k \in {k \in 1..Len(ch.nonblanket_impls[st]) :
                                         ch.nonblanket_impls[st][k] = id}} :
                 st \in DOMAIN ch.nonblanket_impls }

\* the places of the whole Graph where id is stored: <<node, shape, index>>
Slots(chn, id) ==
    UNION { {<<n, s[1], s[2]>> : s \in SlotsIn(chn[n], id)} : n \in DOMAIN chn }

\* the impls stored in a Children
Members(ch) ==
    Range(ch.blanket_impls)
    \cup UNION { Range(ch.nonblanket_impls[st]) : st \in DOMAIN ch.nonblanket_impls }

\* the impls stored under node n (none when n has no Children)
ChildrenOf(chn, n) == IF n \in DOMAIN chn THEN Members(chn[n]) ELSE {}

\* the k-th ancestor of id, staying where the parent map ends
RECURSIVE Ancestor(_, _, _)
Ancestor(par, id, k) ==
    IF k = 0 THEN id
    ELSE LET a == Ancestor(par, id, k - 1)
         IN  IF a \in DOMAIN par THEN par[a] ELSE a

\* The last call was record_impl_from_cstore
Recorded == call.op = "record_impl_from_cstore"

\* the last call of Graph::insert
Called == call.op = "insert"

New == call.impl[1]

LastLevel == call.trace[Len(call.trace)]

EndedWith(tag) == Called /\ call.trace # <<>> /\ LastLevel.tag = tag

\* the pair (new impl, sibling s) is a hard conflict
Conflict(t, new, s) ==
    /\ overlapping_impls(t, s, new, ModeIssue43355)
    /\ impls_are_allowed_to_overlap(t, new, s) = None
    /\ specializes(t, new, s) = specializes(t, s, new)

\* an Insert step has just been taken
Stepped == declared' = declared + 1

----------------------------------------------------------------------------
(* Properties *)

\* C1 - Partition invariant: every impl that was successfully inserted is
\* stored in exactly one place of the whole Graph: one Children set, and
\* there once, in blanket_impls or in one nonblanket_impls bucket.
Thm_C1_Partition ==
    \A id \in DOMAIN parent : Cardinality(Slots(children, id)) = 1

\* C1 witness: a ReplaceChildren surgery has moved two impls under a new one.
Wit_C1_AfterSurgery ==
    /\ EndedWith("ReplaceChildren")
    /\ Len(LastLevel.list) = 2
    /\ call.result.ok

\* C2 - Parent/children consistency: parent[I] = P exactly when I is stored
\* in children[P]; after ReplaceChildren the displaced impls have the new
\* impl as parent and lie in its Children, and the new impl has the cursor as
\* parent and lies in the cursor's Children.
Thm_C2_ParentChildrenInverse ==
    /\ \A id \in DOMAIN parent : id \in ChildrenOf(children, parent[id])
    /\ \A n \in DOMAIN children : \A id \in Members(children[n]) :
           id \in DOMAIN parent /\ parent[id] = n
    /\ EndedWith("ReplaceChildren") =>
           /\ \A d \in Range(LastLevel.list) :
                  parent[d] = New /\ d \in ChildrenOf(children, New)
           /\ parent[New] = LastLevel.node
           /\ New \in ChildrenOf(children, LastLevel.node)

\* C2 witness: a surgery below the top level, the cursor being an impl.
Wit_C2_SurgeryBelowRoot ==
    /\ EndedWith("ReplaceChildren")
    /\ LastLevel.node \in Impls

\* from every impl with a parent entry the parent pointers lead to the trait
\* root, which has no parent entry, in at most as many steps as there are
\* impls
Acyclic(par) ==
    /\ trait_def_id \notin DOMAIN par
    /\ \A id \in DOMAIN par :
           \E k \in 1..Cardinality(Impls) : Ancestor(par, id, k) = trait_def_id

\* the last call, when it was a record_impl_from_cstore that returned, named
\* as parent the trait root or an impl that had a parent entry
RecordedBelowForest ==
    (Recorded /\ ~aborted) =>
        \/ call.into[1] = trait_def_id
        \/ call.into[1] \in DOMAIN parent /\ call.into[1] # call.impl[1]

\* C3 as stated - Acyclicity: after any sequence of successful insertions,
\* by Graph::insert or by record_impl_from_cstore, the parent pointers lead
\* from every inserted impl to the trait root in finitely many steps.
Orig_C3_Acyclic == ~aborted => Acyclic(parent)

\* C3 - Acyclicity: a call of Graph::insert, and a call of
\* record_impl_from_cstore that returns and names as parent the trait root or
\* an impl that has a parent entry, on a forest in which the parent pointers
\* lead from every impl to the trait root, leaves such a forest; the empty
\* Graph is one.  (For any other parent record_impl_from_cstore writes the
\* entry it is given, unchecked.)
Thm_C3_AcyclicKept ==
    /\ Acyclic(EmptyMap)
    /\ [][ (Acyclic(parent) /\ ~aborted' /\ RecordedBelowForest') => Acyclic(parent') ]_vars

\* C3 witness: a chain of three impls below the trait root, the lowest of
\* them recorded from the crate store.
Wit_C3_Chain ==
    /\ Acyclic(parent)
    /\ Recorded
    /\ ~aborted
    /\ Ancestor(parent, call.impl[1], 2) # trait_def_id
    /\ Ancestor(parent, call.impl[1], 3) = trait_def_id

\* C3 witness: Graph::insert has put the new impl between the trait root
\* and an impl recorded from the crate store.
Wit_C3_InsertedAboveRecorded ==
    /\ Acyclic(parent)
    /\ EndedWith("ReplaceChildren")
    /\ \E d \in Range(LastLevel.list) : d \in cstore /\ parent[d] = New

\* C4 - When Graph::insert returns Err the new impl has no parent entry and
\* is stored in no Children set.
Thm_C4_ErrNotInserted ==
    (Called /\ ~call.result.ok) =>
        /\ New \notin DOMAIN parent
        /\ Slots(children, New) = {}

\* C4 witness: the conflict was found after a ShouldRecurseOn descent.
Wit_C4_ErrAfterDescent ==
    /\ Called /\ ~call.result.ok
    /\ Len(call.trace) >= 2

\* C4, second case: the conflict was found after a sibling had been put on the
\* replace list.
Wit_C4_ErrAfterAccumulation ==
    /\ Called /\ ~call.result.ok
    /\ LastLevel.visited >= 2
    /\ \E k \in 1..(LastLevel.visited - 1) :
           /\ specializes(tcx, LastLevel.candidates[k], New)
           /\ ~specializes(tcx, New, LastLevel.candidates[k])
           /\ impls_are_allowed_to_overlap(tcx, New, LastLevel.candidates[k]) = None

\* C5 as stated - A failed insertion leaves the parent map and the children
\* map (keys, blanket_impls, nonblanket_impls with its bucket keys) identical.
Orig_C5_ErrLeavesGraphIdentical ==
    [][(Stepped /\ ~call'.result.ok) => (parent' = parent /\ children' = children)]_vars

\* C5 - A failed insertion leaves the parent map, the keys of the children
\* map, every blanket_impls sequence and every existing bucket identical; all
\* it may add is an empty bucket for the new impl's shape key in Children
\* sets the walk visited.
Thm_C5_ErrKeepsContents ==
    [][(Stepped /\ ~call'.result.ok) =>
          /\ parent' = parent
          /\ DOMAIN children' = DOMAIN children
          /\ \A n \in DOMAIN children :
                /\ children'[n].blanket_impls = children[n].blanket_impls
                /\ DOMAIN children[n].nonblanket_impls \subseteq DOMAIN children'[n].nonblanket_impls
                /\ \A st \in DOMAIN children[n].nonblanket_impls :
                       children'[n].nonblanket_impls[st] = children[n].nonblanket_impls[st]
                /\ \A st \in (DOMAIN children'[n].nonblanket_impls)
                                 \ (DOMAIN children[n].nonblanket_impls) :
                       /\ children'[n].nonblanket_impls[st] = <<>>
                       /\ simplify_type(tcx', call'.impl[1]) = Some(st)
                       /\ \E l \in 1..Len(call'.trace) : call'.trace[l].node = n
    ]_vars

\* C5 witness: a failed insertion of a shaped impl two levels down, with an
\* empty bucket of its shape left at the trait root.
Wit_C5_ErrLeftEmptyBucket ==
    /\ Called /\ ~call.result.ok
    /\ Len(call.trace) = 2
    /\ simplify_type(tcx, New) # None
    /\ simplify_type(tcx, New)[1] \in DOMAIN children[trait_def_id].nonblanket_impls
    /\ children[trait_def_id].nonblanket_impls[simplify_type(tcx, New)[1]] = <<>>

\* C6 - Hard conflict: a scan that reaches a sibling S in conflict with the
\* new impl (overlap, no permission, specializes equal both ways) makes
\* Children::insert and Graph::insert return Err with with_impl = S, and S is
\* the first such sibling in the enumeration.
Thm_C6_HardConflict ==
    Called =>
        /\ \A l \in 1..Len(call.trace) : \A k \in 1..call.trace[l].visited :
               Conflict(tcx, New, call.trace[l].candidates[k]) =>
                   /\ ~call.result.ok
                   /\ call.result.error = Some(overlap_error(call.trace[l].candidates[k]))
                   /\ call.trace[l].tag = "Err"
                   /\ l = Len(call.trace) /\ k = call.trace[l].visited
        /\ ~call.result.ok =>
               /\ LastLevel.tag = "Err"
               /\ call.result.error[1].with_impl = LastLevel.candidates[LastLevel.visited]
               /\ Conflict(tcx, New, call.result.error[1].with_impl)
               /\ \A k \in 1..(LastLevel.visited - 1) :
                      ~Conflict(tcx, New, LastLevel.candidates[k])

\* C6 witness: the error names a sibling although a later sibling of the
\* enumeration is in conflict with the new impl too.
Wit_C6_FirstOfTwoConflicts ==
    /\ Called /\ ~call.result.ok
    /\ \E k \in (LastLevel.visited + 1)..Len(LastLevel.candidates) :
           Conflict(tcx, New, LastLevel.candidates[k])

\* C6, second case: the conflict is the both-true contradiction.
Wit_C6_BothTrue ==
    /\ Called /\ ~call.result.ok
    /\ specializes(tcx, New, call.result.error[1].with_impl)
    /\ specializes(tcx, call.result.error[1].with_impl, New)

\* C7 - Strict specialization chain: every impl whose parent is an impl
\* specializes its parent, and the parent does not specialize it.
Thm_C7_StrictChain ==
    \A id \in DOMAIN parent :
        parent[id] \in Impls =>
            /\ specializes(tcx, id, parent[id])
            /\ ~specializes(tcx, parent[id], id)

\* C7 witness: an impl inserted after two ShouldRecurseOn descents.
Wit_C7_TwoDescents ==
    /\ Called /\ call.result.ok
    /\ Len(call.trace) = 3

\* the two impls overlap and the policy gives no permission for it
OverlapNotPermitted(t, a, b) ==
    /\ overlapping_impls(t, a, b, ModeIssue43355)
    /\ impls_are_allowed_to_overlap(t, a, b) = None

\* C8 as stated - Sibling invariant: two distinct impls stored in the same
\* Children set do not overlap, or their overlap is permitted, impls attached
\* by the erroneous-trait-ref short-circuit included.
Orig_C8_SiblingsDisjoint ==
    \A n \in DOMAIN children : \A a, b \in Members(children[n]) :
        a # b => ~OverlapNotPermitted(tcx, a, b)

\* C8 - Sibling invariant: two distinct impls stored in the same Children
\* set, neither of which has an erroneous trait reference, do not overlap or
\* their overlap is permitted by the policy.
Thm_C8_SiblingsDisjoint ==
    \A n \in DOMAIN children : \A a, b \in Members(children[n]) :
        (a # b /\ ~references_error(tcx, a) /\ ~references_error(tcx, b)) =>
            ~OverlapNotPermitted(tcx, a, b)

\* C8 witness: a blanket impl and two impls of different shapes are siblings,
\* none of them erroneous, and two of them overlap with permission.
Wit_C8_MixedSiblings ==
    \E n \in DOMAIN children :
        /\ \A a \in Members(children[n]) : ~references_error(tcx, a)
        /\ children[n].blanket_impls # <<>>
        /\ Cardinality({st \in DOMAIN children[n].nonblanket_impls :
                            children[n].nonblanket_impls[st] # <<>>}) = 2
        /\ \E a, b \in Members(children[n]) :
               /\ a # b
               /\ overlapping_impls(tcx, a, b, ModeIssue43355)
               /\ impls_are_allowed_to_overlap(tcx, a, b) # None

\* C9 as stated - Future-compatibility lints are always surfaced: a
\* successful Graph::insert during which a sibling comparison at any level
\* recorded a lint returns Ok(Some(lint)).
Orig_C9_LintSurfaced ==
    (Called /\ call.result.ok /\ \E l \in 1..Len(call.trace) : call.trace[l].recorded) =>
        call.result.lint # None

\* C10 - Error short-circuit: for an impl with an erroneous trait reference
\* Graph::insert makes no query, sets parent[new] to the trait, stores the
\* new impl in the trait root's Children, moves no other impl and returns
\* Ok(None).
Thm_C10_ErrorShortCircuit ==
    [][(Stepped /\ references_error(tcx', call'.impl[1])) =>
          /\ call'.queries = <<>>
          /\ call'.result = Ok(None)
          /\ parent' = Put(parent, call'.impl[1], trait_def_id)
          /\ DOMAIN children' = (DOMAIN children) \cup {trait_def_id}
          /\ \A n \in (DOMAIN children) \ {trait_def_id} : children'[n] = children[n]
          /\ Slots(children', call'.impl[1]) \subseteq {trait_def_id} \X (0..NumShapes) \X Nat
          /\ Cardinality(Slots(children', call'.impl[1])) = 1
          /\ \A x \in DOMAIN parent : Slots(children', x) = Slots(children, x)
    ]_vars

\* C10 witness: the erroneous impl was attached next to a sibling it is in
\* conflict with, in a forest of two levels.
Wit_C10_ShortCircuitBesideConflict ==
    /\ Called /\ references_error(tcx, New)
    /\ \E s \in ChildrenOf(children, trait_def_id) : s # New /\ Conflict(tcx, New, s)
    /\ \E id \in DOMAIN parent : parent[id] \in Impls

----------------------------------------------------------------------------
(* record_impl_from_cstore *)

\* C11 - record_impl_from_cstore(parent, child) ends in bug! exactly when the
\* child already has an entry in the parent map before the call, whichever
\* operation wrote that entry.
Thm_C11_AbortIffParented ==
    [][ call'.op = "record_impl_from_cstore"
            => (aborted' <=> call'.impl[1] \in DOMAIN parent) ]_vars

\* bug! was hit for a child whose parent entry was written by Graph::insert
Wit_C11_AbortAfterInsert ==
    /\ Recorded
    /\ aborted
    /\ call.impl[1] \notin cstore

\* bug! was hit for a child recorded twice from the crate store
Wit_C11_AbortAfterRecord ==
    /\ Recorded
    /\ aborted
    /\ call.impl[1] \in cstore

\* a child without a parent entry was recorded under an impl that Graph::insert
\* had placed, and the process goes on
Wit_C11_RecordedUnderLocal ==
    /\ Recorded
    /\ ~aborted
    /\ call.into[1] \in DOMAIN parent \ cstore
    /\ parent[call.impl[1]] = call.into[1]

----------------------------------------------------------------------------
(* Shape filtering *)

\* the impls the Graph has been handed
Declared == {DeclOrder[k] : k \in 1..declared}

\* the sibling a logged oracle query compares the new impl with
QueriedSibling(q) == IF q.a = New THEN q.b ELSE q.a

\* C12 - When a non-blanket impl with shape st is inserted, no oracle is
\* queried for a sibling that is stored under another shape key; and when
\* every impl seen so far is non-blanket with a shape of its own, the insert
\* asks no oracle at all and the impls are siblings under the trait root.
Thm_C12_ShapeFiltering ==
    (Called /\ simplify_type(tcx, New) # None) =>
        /\ \A k \in DOMAIN call.queries :
               simplify_type(tcx, QueriedSibling(call.queries[k]))
                   \in {None, simplify_type(tcx, New)}
        /\ (\A j \in Declared \ {New} :
                simplify_type(tcx, j) \notin {None, simplify_type(tcx, New)})
             => /\ call.queries = <<>>
                /\ New \in DOMAIN parent
                /\ parent[New] = trait_def_id
                /\ New \in ChildrenOf(children, trait_def_id)
        /\ (/\ declared = 2
            /\ simplify_type(tcx, "I1") \notin {None, simplify_type(tcx, "I2")})
             => /\ call.queries = <<>>
                /\ parent = [i \in {"I1", "I2"} |-> trait_def_id]
                /\ ChildrenOf(children, trait_def_id) = {"I1", "I2"}

\* a non-blanket impl was compared with a blanket sibling while a sibling of
\* another shape stood in the same Children
Wit_C12_OtherShapeSkipped ==
    /\ Called
    /\ simplify_type(tcx, New) # None
    /\ call.queries # <<>>
    /\ call.trace[1].tag = "BecameNewSibling"
    /\ \E j \in ChildrenOf(children, trait_def_id) :
           simplify_type(tcx, j) \notin {None, simplify_type(tcx, New)}

\* two impls of different shapes, no blanket impl, no query
Wit_C12_TwoShapes ==
    /\ Called
    /\ declared = 2
    /\ simplify_type(tcx, "I1") # None
    /\ simplify_type(tcx, "I2") # None
    /\ simplify_type(tcx, "I1") # simplify_type(tcx, "I2")
    /\ ~tcx.has_error["I1"]
    /\ ~tcx.has_error["I2"]
    /\ call.queries = <<>>

----------------------------------------------------------------------------
(* Scenario 4: two siblings and a third impl *)

\* I1 and I2 are the two children of the trait root and I3 is inserted, free
\* of error, by the step
ThirdAfterTwoSiblings ==
    /\ declared = 2
    /\ declared' = 3
    /\ parent = [i \in {"I1", "I2"} |-> trait_def_id]
    /\ ChildrenOf(children, trait_def_id) = {"I1", "I2"}
    /\ ~references_error(tcx', "I3")

\* the forest of Scenario 4 after the step
ScenarioFourSurgery ==
    /\ call'.trace[1].tag = "ReplaceChildren"
    /\ Range(call'.trace[1].list) = {"I1", "I2"}
    /\ Len(call'.trace[1].list) = 2
    /\ parent' = [i \in Impls |-> IF i = "I3" THEN trait_def_id ELSE "I3"]
    /\ ChildrenOf(children', trait_def_id) = {"I3"}

\* C13 as stated - with I1 and I2 siblings under the root, inserting an I3
\* that specializes both I1 and I2 returns ReplaceChildren([I1, I2]) and
\* leaves parent[I3] = T, parent[I1] = parent[I2] = I3 and I3 the only child
\* of T.
Orig_C13_NewSpecializesBoth ==
    [][ (/\ ThirdAfterTwoSiblings
         /\ \A s \in {"I1", "I2"} :
                specializes(tcx', "I3", s) /\ ~specializes(tcx', s, "I3"))
            => (/\ ScenarioFourSurgery
                /\ call'.trace[1].list = <<"I1", "I2">>) ]_vars

----------------------------------------------------------------------------
(* The ReplaceChildren surgery *)

\* the step was a Graph::insert whose last scan, of the Children of P, ended
\* neither with an error nor with ShouldRecurseOn
ScanCompleted(P) ==
    /\ Stepped
    /\ call'.trace # <<>>
    /\ call'.trace[Len(call'.trace)].node = P
    /\ call'.trace[Len(call'.trace)].tag \in {"ReplaceChildren", "BecameNewSibling"}

\* the forest after the step, when new has taken the impls of D from P
Displaced(P, new, D) ==
    /\ new \in ChildrenOf(children', P)
    /\ ChildrenOf(children', P) \cap D = {}
    /\ ChildrenOf(children, P) \ D \subseteq ChildrenOf(children', P)
    /\ ChildrenOf(children', new) = D
    /\ \A d \in D : parent'[d] = new
    /\ parent'[new] = P
    /\ \A d \in D : IF d \in DOMAIN children
                    THEN d \in DOMAIN children' /\ children'[d] = children[d]
                    ELSE d \notin DOMAIN children'

\* the candidates of the last scan that strictly specialize the new impl
MoreSpecific(t, new, cands) ==
    { S \in Range(cands) : specializes(t, S, new) /\ ~specializes(t, new, S) }

\* C14 as stated - when the scan of P's Children completes without error or
\* recursion and the set D of candidates S with specializes(S, new) true and
\* specializes(new, S) false is not empty, the surgery moves exactly D below
\* the new impl.
Orig_C14_SurgeryOnSpecializers ==
    [][ \A P \in Impls \cup {trait_def_id} :
          (/\ ScanCompleted(P)
           /\ MoreSpecific(tcx', call'.impl[1],
                           call'.trace[Len(call'.trace)].candidates) # {})
            => Displaced(P, call'.impl[1],
                         MoreSpecific(tcx', call'.impl[1],
                                      call'.trace[Len(call'.trace)].candidates)) ]_vars

\* the candidates that strictly specialize the new impl in an overlap that
\* the policy does not permit
Displaceable(t, new, cands) ==
    { S \in MoreSpecific(t, new, cands) :
        /\ overlapping_impls(t, S, new, ModeIssue43355)
        /\ impls_are_allowed_to_overlap(t, new, S) = None }

\* C14 - When the scan of P's Children completes without error or recursion
\* and the set D of candidates S that overlap the new impl, without a
\* permission of the policy, with specializes(S, new) true and
\* specializes(new, S) false is not empty, Children::insert returns
\* ReplaceChildren with the impls of D and after Graph::insert: children[P]
\* holds the new impl and none of D, every other previous child of P is
\* still there, children[new] holds exactly D, parent[d] = new for d in D,
\* parent[new] = P, every other parent entry is as before and the Children
\* of the displaced impls are unchanged.
Thm_C14_SurgeryOnDisplaceable ==
    [][ \A P \in Impls \cup {trait_def_id} :
          (/\ ScanCompleted(P)
           /\ Displaceable(tcx', call'.impl[1],
                           call'.trace[Len(call'.trace)].candidates) # {})
            => /\ call'.trace[Len(call'.trace)].tag = "ReplaceChildren"
               /\ Range(call'.trace[Len(call'.trace)].list)
                    = Displaceable(tcx', call'.impl[1],
                                   call'.trace[Len(call'.trace)].candidates)
               /\ Displaced(P, call'.impl[1],
                            Displaceable(tcx', call'.impl[1],
                                         call'.trace[Len(call'.trace)].candidates))
               /\ \A x \in DOMAIN parent :
                      x \notin Range(call'.trace[Len(call'.trace)].list)
                          => parent'[x] = parent[x] ]_vars

\* I3 has displaced I1, which keeps its own child I2
Wit_C14_DisplacedWithSubtree ==
    /\ EndedWith("ReplaceChildren")
    /\ New = "I3"
    /\ LastLevel.list = <<"I1">>
    /\ parent = [i \in Impls |-> IF i = "I3" THEN trait_def_id
                                 ELSE IF i = "I1" THEN "I3" ELSE "I1"]
    /\ ChildrenOf(children, "I1") = {"I2"}
    /\ ChildrenOf(children, "I3") = {"I1"}

\* I3 has displaced one child of the root and the other child stays
Wit_C14_OtherChildStays ==
    /\ EndedWith("ReplaceChildren")
    /\ New = "I3"
    /\ Len(LastLevel.list) = 1
    /\ ChildrenOf(children, trait_def_id) \cap {"I1", "I2"} # {}
    /\ ChildrenOf(children, "I3") \cap {"I1", "I2"} # {}
    /\ "I3" \in ChildrenOf(children, trait_def_id)

\* the surgery happened below the root
Wit_C14_SurgeryBelowRoot ==
    /\ EndedWith("ReplaceChildren")
    /\ LastLevel.node = "I1"
    /\ LastLevel.list = <<"I2">>
    /\ parent["I3"] = "I1"
    /\ parent["I2"] = "I3"

----------------------------------------------------------------------------
(* Descent *)

\* the overlap of new and S is one the scan judges by specializes
Judged(t, new, S) ==
    /\ overlapping_impls(t, S, new, ModeIssue43355)
    /\ impls_are_allowed_to_overlap(t, new, S) = None

\* candidate S ends the scan of a new impl: a conflict or a descent
EndsScan(t, new, S) ==
    /\ Judged(t, new, S)
    /\ \/ specializes(t, new, S) = specializes(t, S, new)
       \/ specializes(t, new, S)

\* what the step did at the level lv of its walk, S being the candidate the
\* new impl went below
Descended(lv, new, S) ==
    /\ lv.tag = "ShouldRecurseOn"
    /\ lv.target = Some(S)
    /\ new \notin ChildrenOf(children', lv.node)
    /\ \E k \in 1..(Len(call'.trace) - 1) :
           call'.trace[k] = lv /\ call'.trace[k + 1].node = S
    /\ parent'[S] = parent[S]
    /\ call'.result.ok =>
           \E n \in 1..Len(DeclOrder) : Ancestor(parent', new, n) = S
    /\ ChildrenOf(children, S) = {} => (call'.result.ok /\ parent'[new] = S)

\* C15 as stated - if the new impl strictly specializes a candidate S of the
\* cursor and no earlier candidate ended the scan, Children::insert returns
\* ShouldRecurseOn(S), the new impl is not added to the cursor's Children,
\* the walk continues in S, and on success the new impl is a descendant of
\* S, directly below S when S had no children.
Orig_C15_DescentOnSpecializes ==
    [][ Stepped =>
          \A k \in DOMAIN call'.trace :
          \A i \in DOMAIN call'.trace[k].candidates :
              (/\ specializes(tcx', call'.impl[1], call'.trace[k].candidates[i])
               /\ ~specializes(tcx', call'.trace[k].candidates[i], call'.impl[1])
               /\ \A j \in 1..(i - 1) :
                      ~EndsScan(tcx', call'.impl[1], call'.trace[k].candidates[j]))
                => Descended(call'.trace[k], call'.impl[1],
                             call'.trace[k].candidates[i]) ]_vars

\* C15 - If the new impl overlaps a candidate S of the cursor, without a
\* permission of the policy, and strictly specializes it, and no earlier
\* candidate ended the scan, Children::insert returns ShouldRecurseOn(S),
\* the new impl is not added to the cursor's Children, the walk continues in
\* S, parent[S] is unchanged, and on success the new impl is a descendant of
\* S, directly below S when S had no children.
Thm_C15_DescentOnJudgedOverlap ==
    [][ Stepped =>
          \A k \in DOMAIN call'.trace :
          \A i \in DOMAIN call'.trace[k].candidates :
              (/\ Judged(tcx', call'.impl[1], call'.trace[k].candidates[i])
               /\ specializes(tcx', call'.impl[1], call'.trace[k].candidates[i])
               /\ ~specializes(tcx', call'.trace[k].candidates[i], call'.impl[1])
               /\ \A j \in 1..(i - 1) :
                      ~EndsScan(tcx', call'.impl[1], call'.trace[k].candidates[j]))
                => Descended(call'.trace[k], call'.impl[1],
                             call'.trace[k].candidates[i]) ]_vars

\* I2 went below I1, which had no children (Scenario 2)
Wit_C15_BelowChildless ==
    /\ Called
    /\ declared = 2
    /\ Len(call.trace) = 2
    /\ call.trace[1].tag = "ShouldRecurseOn"
    /\ call.trace[2].tag = "BecameNewSibling"
    /\ parent = [i \in {"I1", "I2"} |-> IF i = "I1" THEN trait_def_id ELSE "I1"]

\* I3 went below the second candidate of the root
Wit_C15_SecondCandidate ==
    /\ Called
    /\ New = "I3"
    /\ Len(call.trace) = 2
    /\ call.trace[1].tag = "ShouldRecurseOn"
    /\ call.trace[1].visited = 2
    /\ call.result.ok
    /\ parent["I3"] = call.trace[1].candidates[2]

\* I3 went below I1 and met a conflict with the child of I1
Wit_C15_DescentThenErr ==
    /\ Called
    /\ New = "I3"
    /\ Len(call.trace) = 2
    /\ call.trace[1].tag = "ShouldRecurseOn"
    /\ call.trace[2].tag = "Err"
    /\ parent = [i \in {"I1", "I2"} |-> IF i = "I1" THEN trait_def_id ELSE "I1"]

----------------------------------------------------------------------------
(* Order independence *)

\* both Graphs have been handed the three impls
BothFed == declared = Len(DeclOrder) /\ mirror.fed = Len(MirrorOrder)

\* A = I1 and B = I2 overlap with no specialization direction and C = I3
\* strictly specializes both
AmbiguousPairAndSpecializer ==
    /\ Judged(tcx, "I2", "I1")
    /\ ~specializes(tcx, "I1", "I2")
    /\ ~specializes(tcx, "I2", "I1")
    /\ \A s \in {"I1", "I2"} :
           /\ Judged(tcx, "I3", s)
           /\ specializes(tcx, "I3", s)
           /\ ~specializes(tcx, s, "I3")

\* C16 - For impls A, B, C where A and B overlap with no specialization
\* direction and C specializes both, with no lint involved, the insertion
\* orders [A, B, C] and [C, A, B] end with the same parent map and the same
\* members in every Children.
Thm_C16_OrderIndependence ==
    (BothFed /\ AmbiguousPairAndSpecializer) =>
        /\ parent = mirror.parent
        /\ \A n \in Impls \cup {trait_def_id} :
               ChildrenOf(children, n) = ChildrenOf(mirror.children, n)

\* both orders have ended with A under the root and C below A, B rejected;
\* in the second order A displaced C
Wit_C16_BothOrdersDone ==
    /\ BothFed
    /\ AmbiguousPairAndSpecializer
    /\ "I2" \notin DOMAIN parent
    /\ parent["I3"] = "I1"
    /\ mirror.parent = [i \in {"I1", "I3"} |-> IF i = "I1" THEN trait_def_id ELSE "I1"]
    /\ ChildrenOf(mirror.children, "I1") = {"I3"}
    /\ ChildrenOf(mirror.children, trait_def_id) = {"I1"}

----------------------------------------------------------------------------
(* Overlap that the policy permits *)

\* the scan of level lv visited its i-th candidate, which overlaps the new
\* impl in an overlap that the policy permits
PermittedAt(lv, i) ==
    /\ i \in 1..lv.visited
    /\ overlapping_impls(tcx, lv.candidates[i], New, ModeIssue43355)
    /\ impls_are_allowed_to_overlap(tcx, New, lv.candidates[i]) # None

\* the lints the scan of level lv recorded against S, in order
LintsAgainst(lv, S) == SelectSeq(lv.lints, LAMBDA l : l.with_impl = S)

\* C17 - A candidate S whose overlap with the new impl the policy permits
\* never makes the scan end with Err or ShouldRecurseOn, is never displaced,
\* and specializes is not consulted for the pair; a Permitted overlap
\* records no lint against S and an Issue33140 overlap records one lint, of
\* kind Issue33140 with with_impl S.
Thm_C17_PermittedOverlap ==
    Called =>
        \A k \in DOMAIN call.trace : \A i \in DOMAIN call.trace[k].candidates :
            PermittedAt(call.trace[k], i) =>
                /\ call.trace[k].tag \in {"Err", "ShouldRecurseOn"}
                       => call.trace[k].visited # i
                /\ call.trace[k].candidates[i] \notin Range(call.trace[k].list)
                /\ New \in DOMAIN parent => parent[New] # call.trace[k].candidates[i]
                /\ parent[call.trace[k].candidates[i]] # New
                /\ \A q \in DOMAIN call.queries :
                       call.queries[q].op = "specializes"
                           => call.trace[k].candidates[i]
                                  \notin {call.queries[q].a, call.queries[q].b}
                /\ impls_are_allowed_to_overlap(tcx, New, call.trace[k].candidates[i])
                       = Some("Permitted")
                     => LintsAgainst(call.trace[k], call.trace[k].candidates[i]) = <<>>
                /\ impls_are_allowed_to_overlap(tcx, New, call.trace[k].candidates[i])
                       = Some("Issue33140")
                     => LintsAgainst(call.trace[k], call.trace[k].candidates[i])
                          = << FutureCompatOverlapError(call.trace[k].candidates[i],
                                                        "Issue33140") >>

\* the new impl specializes a sibling in an overlap grandfathered by issue
\* 33140: it became a sibling, with the lint
Wit_C17_GrandfatheredSpecializer ==
    /\ EndedWith("BecameNewSibling")
    /\ \E S \in Range(LastLevel.candidates) :
           /\ overlapping_impls(tcx, S, New, ModeIssue43355)
           /\ impls_are_allowed_to_overlap(tcx, New, S) = Some("Issue33140")
           /\ specializes(tcx, New, S)
           /\ parent[New] = parent[S]
           /\ call.result = Ok(Some(FutureCompatOverlapError(S, "Issue33140")))

\* a sibling that specializes the new impl in a Permitted overlap was not
\* displaced and no lint was recorded
Wit_C17_PermittedNotDisplaced ==
    /\ EndedWith("BecameNewSibling")
    /\ \E S \in Range(LastLevel.candidates) :
           /\ overlapping_impls(tcx, S, New, ModeIssue43355)
           /\ impls_are_allowed_to_overlap(tcx, New, S) = Some("Permitted")
           /\ specializes(tcx, S, New)
           /\ parent[New] = parent[S]
           /\ LastLevel.lints = <<>>

----------------------------------------------------------------------------
(* Priority of the lints *)

\* the leak-check-skipping overlap check was run for sibling S
LeakCheckRun(S) ==
    \E q \in DOMAIN call.queries :
        call.queries[q] = Query("overlapping_impls", S, New, Some(ModeFixedSkipLeak))

\* C18 - Within one Children::insert call a LeakCheck lint is recorded only
\* if no Issue43355 lint was recorded before it in that call, and the
\* leak-check-skipping overlap check is run for a sibling only when no lint
\* has been recorded for an earlier sibling or by the sibling's own check in
\* mode Fixed.
Thm_C18_LeakCheckLast ==
    Called =>
        \A k \in DOMAIN call.trace :
            /\ \A j \in DOMAIN call.trace[k].lints :
                   call.trace[k].lints[j].kind = "LeakCheck"
                       => \A h \in 1..(j - 1) : call.trace[k].lints[h].kind # "Issue43355"
            /\ \A i \in DOMAIN call.trace[k].candidates :
                   LeakCheckRun(call.trace[k].candidates[i])
                       => \A j \in DOMAIN call.trace[k].lints :
                              \/ call.trace[k].lints[j]
                                   = FutureCompatOverlapError(call.trace[k].candidates[i],
                                                              "LeakCheck")
                              \/ \E h \in (i + 1)..Len(call.trace[k].candidates) :
                                     call.trace[k].lints[j].with_impl
                                         = call.trace[k].candidates[h]

\* a sibling that overlaps the new impl only without the leak check came
\* after a sibling with an Issue43355 lint: no LeakCheck lint, no second check
Wit_C18_LeakCheckSuppressed ==
    /\ EndedWith("BecameNewSibling")
    /\ Len(LastLevel.candidates) = 2
    /\ LastLevel.lints = << FutureCompatOverlapError(LastLevel.candidates[1], "Issue43355") >>
    /\ tcx.overlap[{LastLevel.candidates[2], New}] = {ModeFixedSkipLeak}
    /\ impls_are_allowed_to_overlap(tcx, New, LastLevel.candidates[2]) = None
    /\ ~LeakCheckRun(LastLevel.candidates[2])

\* a LeakCheck lint was recorded and returned
Wit_C18_LeakCheckRecorded ==
    /\ EndedWith("BecameNewSibling")
    /\ LastLevel.lints # <<>>
    /\ LastLevel.lints[1].kind = "LeakCheck"
    /\ call.result = Ok(Some(LastLevel.lints[1]))

\* C19 as stated - When a scan that ends in BecameNewSibling recorded an
\* Issue33140 lint for one candidate and an Issue43355 lint for another, the
\* lint returned has kind Issue33140, whatever the order of the two
\* candidates.
Orig_C19_Issue33140Wins ==
    (/\ EndedWith("BecameNewSibling")
     /\ \E j, h \in DOMAIN LastLevel.lints :
            /\ LastLevel.lints[j].kind = "Issue33140"
            /\ LastLevel.lints[h].kind = "Issue43355"
            /\ LastLevel.lints[j].with_impl # LastLevel.lints[h].with_impl)
        => /\ call.result.ok
           /\ call.result.lint # None
           /\ call.result.lint[1].kind = "Issue33140"

----------------------------------------------------------------------------
(* Early stop on descent *)

\* some type-level query of the step compares the new impl with S
Asked(S) ==
    \E q \in DOMAIN call'.queries : S \in {call'.queries[q].a, call'.queries[q].b}

\* what the step did at the level lv of its walk, whose i-th candidate is the
\* one the new impl goes below
StoppedAt(lv, i) ==
    /\ lv.tag = "ShouldRecurseOn"
    /\ lv.target = Some(lv.candidates[i])
    /\ lv.visited = i
    /\ \A h \in (i + 1)..Len(lv.candidates) : ~Asked(lv.candidates[h])
    /\ ChildrenOf(children', lv.node) = ChildrenOf(children, lv.node)
    /\ \A c \in Range(lv.candidates) : parent'[c] = parent[c]
    /\ call'.result.lint # None =>
           call'.result.lint[1].with_impl \notin Range(lv.candidates)

\* C20 as stated - Once a candidate S with specializes(new, S) true and
\* specializes(S, new) false is reached, Children::insert returns
\* ShouldRecurseOn(S) at once: no candidate after S is asked about, and the
\* replace list and the lint of this scan change neither Graph nor result.
Orig_C20_StopOnSpecializes ==
    [][ Stepped =>
          \A k \in DOMAIN call'.trace :
          \A i \in 1..call'.trace[k].visited :
              (/\ specializes(tcx', call'.impl[1], call'.trace[k].candidates[i])
               /\ ~specializes(tcx', call'.trace[k].candidates[i], call'.impl[1]))
                => StoppedAt(call'.trace[k], i) ]_vars

\* C20 - Once the scan reaches a candidate S that overlaps the new impl,
\* without a permission of the policy, with specializes(new, S) true and
\* specializes(S, new) false, Children::insert returns ShouldRecurseOn(S) at
\* once: no candidate after S is asked about, the members of the cursor's
\* Children and the parents of all candidates stay as they were, and the
\* lint returned, if any, is not one of this scan.
Thm_C20_StopOnJudgedOverlap ==
    [][ Stepped =>
          \A k \in DOMAIN call'.trace :
          \A i \in 1..call'.trace[k].visited :
              (/\ Judged(tcx', call'.impl[1], call'.trace[k].candidates[i])
               /\ specializes(tcx', call'.impl[1], call'.trace[k].candidates[i])
               /\ ~specializes(tcx', call'.trace[k].candidates[i], call'.impl[1]))
                => StoppedAt(call'.trace[k], i) ]_vars

\* I3 went below the second candidate after the first, which specializes
\* I3, had been put on the replace list: the first keeps its parent
Wit_C20_ReplaceListDropped ==
    /\ Called
    /\ New = "I3"
    /\ call.trace # <<>>
    /\ call.trace[1].tag = "ShouldRecurseOn"
    /\ call.trace[1].visited = 2
    /\ Judged(tcx, New, call.trace[1].candidates[1])
    /\ specializes(tcx, call.trace[1].candidates[1], New)
    /\ parent[call.trace[1].candidates[1]] = trait_def_id
    /\ parent[New] = call.trace[1].candidates[2]

\* I3 went below the second candidate after a lint against the first had
\* been recorded: no lint is returned
Wit_C20_LintDropped ==
    /\ Called
    /\ New = "I3"
    /\ call.trace # <<>>
    /\ call.trace[1].tag = "ShouldRecurseOn"
    /\ call.trace[1].lints # <<>>
    /\ call.result = Ok(None)

\* I3 went below the first candidate and the second, in conflict with I3,
\* was never asked about
Wit_C20_LaterConflictUnseen ==
    /\ Called
    /\ New = "I3"
    /\ call.trace # <<>>
    /\ call.trace[1].tag = "ShouldRecurseOn"
    /\ call.trace[1].visited = 1
    /\ Len(call.trace[1].candidates) = 2
    /\ Conflict(tcx, New, call.trace[1].candidates[2])
    /\ call.result.ok

----------------------------------------------------------------------------
(* Sibling order *)

\* the list after is the list before without the impls that left it, in the
\* same order, followed by the impls that joined it
OrderKept(before, after) ==
    \E m \in 0..Len(after) :
        /\ SubSeq(after, 1, m) = SelectSeq(before, LAMBDA x : x \in Range(after))
        /\ \A j \in (m + 1)..Len(after) : after[j] \notin Range(before)

\* the Children of node n before the step (empty when n has none yet)
ChildrenBefore(n) == EntryOrDefault(children, n, DefaultChildren)[n]

\* C21 - In every Children the blanket list and every bucket keep their
\* impls in the order they were added: a call appends new ids at the end and
\* the removals of ReplaceChildren leave the order of the remaining ids as it
\* was; and the candidates enumerated for a shaped impl are the blanket
\* impls in their order followed by the impls of its own bucket in their
\* order.
Thm_C21_SiblingOrder ==
    [][ Stepped =>
          /\ \A n \in DOMAIN children :
                 /\ n \in DOMAIN children'
                 /\ OrderKept(children[n].blanket_impls, children'[n].blanket_impls)
                 /\ \A st \in DOMAIN children[n].nonblanket_impls :
                        /\ st \in DOMAIN children'[n].nonblanket_impls
                        /\ OrderKept(children[n].nonblanket_impls[st],
                                     children'[n].nonblanket_impls[st])
          /\ \A k \in DOMAIN call'.trace :
                 simplify_type(tcx', call'.impl[1]) # None =>
                     call'.trace[k].candidates
                         = ChildrenBefore(call'.trace[k].node).blanket_impls
                           \o EntryOrDefault(
                                  ChildrenBefore(call'.trace[k].node).nonblanket_impls,
                                  simplify_type(tcx', call'.impl[1])[1],
                                  <<>>)[simplify_type(tcx', call'.impl[1])[1]] ]_vars

\* I4 has taken the first of three impls of one bucket: the other two keep
\* their order and I4 follows them
Wit_C21_FirstOfThreeRemoved ==
    /\ Called
    /\ declared = 4
    /\ call.trace[1].tag = "ReplaceChildren"
    /\ call.trace[1].candidates = <<"I1", "I2", "I3">>
    /\ call.trace[1].list = <<"I1">>
    /\ simplify_type(tcx, "I4") # None
    /\ children[trait_def_id].nonblanket_impls[simplify_type(tcx, "I4")[1]]
         = <<"I2", "I3", "I4">>

\* the candidates of shaped I4 were a blanket impl and then the two impls of
\* its bucket, an impl of another shape standing by
Wit_C21_BlanketThenBucket ==
    /\ Called
    /\ declared = 4
    /\ simplify_type(tcx, "I4") # None
    /\ simplify_type(tcx, "I2") = None
    /\ simplify_type(tcx, "I1") = simplify_type(tcx, "I4")
    /\ simplify_type(tcx, "I3") \notin {None, simplify_type(tcx, "I4")}
    /\ call.trace[1].candidates = <<"I2", "I1">>
    /\ Members(children[trait_def_id]) = ChildIds

----------------------------------------------------------------------------
(* The frame of record_impl_from_cstore *)

\* parent and children are inverse views of each other
InverseViews(par, chn) ==
    /\ \A id \in DOMAIN par : id \in ChildrenOf(chn, par[id])
    /\ \A n \in DOMAIN chn : \A id \in Members(chn[n]) : id \in DOMAIN par /\ par[id] = n

\* the step was record_impl_from_cstore(P, child) for a child without a
\* parent entry
RecordedFresh(P, child) ==
    /\ call'.op = "record_impl_from_cstore"
    /\ call'.into = Some(P)
    /\ call'.impl = Some(child)
    /\ child \notin DOMAIN parent

\* C22 - record_impl_from_cstore(P, child) for a child without a parent
\* entry sets parent[child] = P and pushes child on children[P], created
\* when absent, asks no type-level query and leaves every other parent entry
\* and every other Children as it was; and as long as no call has ended in
\* bug!, parent and children are inverse views of each other after any
\* interleaving of such calls with calls of Graph::insert.
Thm_C22_RecordFrame ==
    [][ /\ ~aborted' => InverseViews(parent', children')
        /\ \A P \in Impls \cup {trait_def_id} : \A child \in Impls :
               RecordedFresh(P, child) =>
                   /\ ~aborted'
                   /\ parent' = Put(parent, child, P)
                   /\ DOMAIN children' = DOMAIN children \cup {P}
                   /\ children'[P] = insert_blindly(tcx', ChildrenBefore(P), child)
                   /\ child \in ChildrenOf(children', P)
                   /\ \A n \in DOMAIN children : n # P => children'[n] = children[n]
                   /\ call'.queries = <<>> ]_vars

\* I3 was recorded under I1, which Graph::insert had placed and which had no
\* Children yet, beside the local impl I2
Wit_C22_RecordedUnderChildless ==
    /\ Recorded
    /\ ~aborted
    /\ call.into = Some("I1")
    /\ call.impl = Some("I3")
    /\ cstore = {"I3"}
    /\ parent = [i \in Impls |-> IF i = "I3" THEN "I1" ELSE trait_def_id]
    /\ ChildrenOf(children, "I1") = {"I3"}
    /\ ChildrenOf(children, trait_def_id) = {"I1", "I2"}

\* Graph::insert has displaced an impl recorded from the crate store
Wit_C22_RecordedThenDisplaced ==
    /\ Called
    /\ ~aborted
    /\ EndedWith("ReplaceChildren")
    /\ Range(LastLevel.list) \cap cstore # {}
    /\ InverseViews(parent, children)

----------------------------------------------------------------------------
(* Termination *)

\* the number of edges from id up to the trait root
DepthOf(par, id) ==
    CHOOSE k \in 0..Cardinality(DOMAIN par) :
        /\ Ancestor(par, id, k) = trait_def_id
        /\ \A j \in 0..(k - 1) : Ancestor(par, id, j) # trait_def_id

\* the depth of the forest: the longest way from an impl up to the trait root
Depth(par) ==
    IF DOMAIN par = {} THEN 0
    ELSE CHOOSE d \in 0..Cardinality(DOMAIN par) :
             /\ \E id \in DOMAIN par : DepthOf(par, id) = d
             /\ \A id \in DOMAIN par : DepthOf(par, id) <= d

\* the candidates of a scan are distinct and the scan went through them once
ScannedOnce(lv) ==
    /\ \A i, j \in DOMAIN lv.candidates : lv.candidates[i] = lv.candidates[j] => i = j
    /\ lv.visited <= Len(lv.candidates)

\* C23 - Every call of Graph::insert on a forest built by Graph::insert
\* leaves its loop and returns Ok or Err: a turn that ends in
\* ShouldRecurseOn moves the cursor to a child of the cursor, the number of
\* turns is at most the depth of the forest plus one, and every scan goes
\* through distinct candidates once.
Thm_C23_Termination ==
    /\ InLoop ~> (call.op = "insert" /\ call.result.ok \in BOOLEAN)
    /\ [][ InLoop =>
             /\ Len(call'.trace) = Len(call.trace) + 1
             /\ Len(call'.trace) <= Depth(parent) + 1
             /\ ScannedOnce(call'.trace[Len(call'.trace)])
             /\ InLoop' => /\ call'.into[1] \in ChildrenOf(children, call.into[1])
                           /\ parent[call'.into[1]] = call.into[1] ]_vars

\* a call has returned after three turns on a forest of depth two
Wit_C23_ThreeTurns ==
    /\ call.op = "insert"
    /\ Len(call.trace) = 3
    /\ call.trace[1].tag = "ShouldRecurseOn"
    /\ call.trace[2].tag = "ShouldRecurseOn"
    /\ call.result.ok
    /\ Depth(parent) = 3

\* a call is inside its loop, the cursor on an impl
Wit_C23_InsideLoop ==
    /\ InLoop
    /\ call.into # Some(trait_def_id)
    /\ Len(call.trace) = 1

====
